---- MODULE Spec2Model ----
(***************************************************************************)
(* Round-robin reverse-proxy load balancer (src/main.go).                  *)
(*                                                                         *)
(* Shared state: the ServerPool (the ordered backends with their Alive     *)
(* flags, the atomic cursor `current`).  Every inbound request is a        *)
(* goroutine running lb -> GetNextPeer -> ReverseProxy.ServeHTTP ->        *)
(* ErrorHandler -> (ServeHTTP | lb) ...; each access to shared state       *)
(* (atomic.AddUint64, IsAlive, atomic.StoreUint64, SetAlive) is one step.  *)
(* Go indexes the pool from 0; backends[idx + 1] is s.backends[idx].       *)
(***************************************************************************)
EXTENDS Integers, Sequences, FiniteSets, TLC

\* ---------------------------------------------------------------- bounds
\* Largest pool of the concurrent specifications.
MaxBackends == 3
\* Width of the cursor in bits (uint64 in the source, scaled down so that
\* the wrap-around is reached).
CursorBits == 3
\* Pool size of the single-request specification.
BigPool == 5
\* Largest pool of the specification with the health driver.
HealthPool == 2

\* ------------------------------------------------------------- constants
\* Context keys (const ... iota).
Attempts == 0
Retry == 1
\* lb: `if attempts > 3`.
MaxAttempts == 3
\* ErrorHandler: `if retries < 3`.
MaxRetries == 3

RECURSIVE Pow2(_)
Pow2(n) == IF n = 0 THEN 1 ELSE 2 * Pow2(n - 1)
\* Number of values of the cursor's unsigned type.
Modulus == Pow2(CursorBits)

\* Absent context value / nil *Backend.
Unset == -1
Nil == -1

\* Request goroutines that can be in flight together: two, the least number
\* that interleaves one request's selection with another's selection or
\* demotion.
Requests == {1, 2}

\* History bookkeeping: `calls` stops counting here, Untracked once an Alive
\* flag has changed.
CallCap == 2 * Modulus
Untracked == Nil

VARIABLES
    backends,   \* ServerPool.backends: sequence of [URL, Alive]
    current,    \* ServerPool.current
    conns,      \* how many request goroutines the environment runs at once
    pc,         \* where each request goroutine is
    ctx,        \* the request's context: key -> value or Unset
    nextIdx,    \* GetNextPeer's nextIdx
    i,          \* GetNextPeer's loop variable
    seen,       \* the value atomic.AddUint64 returned to the request's NextIndex
    peer,       \* the backend (Go index) chosen / being proxied to, or Nil
    \* History variables: written by the actions, read by no guard.
    calls,      \* NextIndex calls so far, while no Alive flag has changed
    ticket,     \* the rank of the request's NextIndex call among all calls
    stable,     \* no Alive flag changed since the request's NextIndex call
    visited,    \* backends the request has been dispatched to
    entryDead,  \* every backend was dead when the request entered lb
    before,     \* the cursor just before the request's NextIndex call
    fails,      \* failed relays to the current peer since it was chosen
    lastPick    \* the backend the previous GetNextPeer call returned, kept
                \* while requests run one at a time and no Alive flag changes

hist == <<calls, ticket, stable, visited, entryDead, before, fails, lastPick>>
vars == <<backends, current, conns, pc, ctx, nextIdx, i, seen, peer, hist>>

NumBackends == Len(backends)

\* ------------------------------------------------------- pure operations
\* Mutant: the value is looked up under the other key.
GetAttemptsOtherKey(c) == IF c[Attempts] # Unset THEN c[Attempts] ELSE 0

\* GetAttemptsFromContext: the value under key Retry when set, else 0.
GetAttemptsFromContext(c) == IF c[Retry] # Unset THEN c[Retry] ELSE 0

\* context.WithValue(ctx, key, val)
WithValue(c, key, val) == [c EXCEPT ![key] = val]

\* Mutant: the flag is not consulted.
IsAliveAny(bs, idx) == TRUE

\* Backend.IsAlive of s.backends[idx]
IsAlive(bs, idx) == bs[idx + 1].Alive

\* Backend.SetAlive on s.backends[idx]
SetAlive(bs, idx, alive) == [bs EXCEPT ![idx + 1].Alive = alive]

\* Mutant: the write also sets every other backend's flag back to true.
MarkBackendStatusRevive(bs, backendUrl, alive) ==
    [j \in 1..Len(bs) |->
        [bs[j] EXCEPT !.Alive = IF bs[j].URL = backendUrl THEN alive ELSE TRUE]]

\* Mutant: the flag is never written.
MarkBackendStatusNone(bs, backendUrl, alive) == bs

\* Mutant: the loop has no break, every match is written.
MarkBackendStatusAll(bs, backendUrl, alive) ==
    [j \in 1..Len(bs) |->
        IF bs[j].URL = backendUrl THEN [bs[j] EXCEPT !.Alive = alive] ELSE bs[j]]

\* MarkBackendStatus: the first backend whose URL string equals, if any.
MarkBackendStatus(bs, backendUrl, alive) ==
    LET hits == {j \in 0..(Len(bs) - 1) : bs[j + 1].URL = backendUrl}
    IN  IF hits = {} THEN bs
        ELSE LET first == CHOOSE j \in hits : \A k \in hits : j <= k
             IN  SetAlive(bs, first, alive)

\* Mutant: the increment is lost.
AddUint64Lost(c, delta) == c

\* Mutant: the cursor advances one too far.
AddUint64Skip(c, delta) == (c + delta + 1) % Modulus

\* atomic.AddUint64(&s.current, delta): the new value, modulo the width.
AddUint64(c, delta) == (c + delta) % Modulus

\* Mutant: the fast-forward is dropped.
StoreUint64Keep(c, v) == c

\* Mutant: the fast-forward stores the position after the one found.
StoreUint64Next(c, v) == (v + 1) % Modulus

\* atomic.StoreUint64(&s.current, v): the new value.
StoreUint64(c, v) == v

\* Mutant: the modulus is dropped.
IndexOfRaw(v, n) == v

\* NextIndex's result from the incremented cursor: int(v % uint64(len)).
IndexOf(v, n) == v % n

\* Mutant: the scan stops one position short of a full cycle.
ScanLimitShort(n, start) == n + start - 1

\* GetNextPeer: l := len(s.backends) + nextIdx
ScanLimit(n, start) == n + start

\* Mutant: the nil check is dropped.
DispatchesAlways(p) == TRUE

\* lb: peer != nil
Dispatches(p) == p # Nil

\* lb: attempts > 3
CeilingReached(attempts) == attempts > MaxAttempts

\* ErrorHandler: retries < 3
MayRetry(retries) == retries < MaxRetries

\* ------------------------------------------------------ history helpers
AllDead(bs) == \A j \in 1..Len(bs) : ~bs[j].Alive

CountCall(n) ==
    IF n = Untracked THEN Untracked ELSE IF n < CallCap THEN n + 1 ELSE CallCap

\* --------------------------------------------------------------- initial
EmptyContext == [k \in {Attempts, Retry} |-> Unset]

\* main: one backend per token, Alive = true, in configuration order.
Pool(n) == [j \in 1..n |-> [URL |-> j, Alive |-> TRUE]]

\* A pool with the given URL per backend (duplicates allowed).
PoolOf(urls) == [j \in 1..Len(urls) |-> [URL |-> urls[j], Alive |-> TRUE]]

InitPool(bs, c) ==
    /\ backends = bs
    /\ current = 0
    /\ conns = c
    /\ pc = [r \in Requests |-> "idle"]
    /\ ctx = [r \in Requests |-> EmptyContext]
    /\ nextIdx = [r \in Requests |-> 0]
    /\ i = [r \in Requests |-> 0]
    /\ seen = [r \in Requests |-> 0]
    /\ peer = [r \in Requests |-> Nil]
    /\ calls = 0
    /\ ticket = [r \in Requests |-> Untracked]
    /\ stable = [r \in Requests |-> FALSE]
    /\ visited = [r \in Requests |-> {}]
    /\ entryDead = [r \in Requests |-> FALSE]
    /\ before = [r \in Requests |-> 0]
    /\ fails = [r \in Requests |-> 0]
    /\ lastPick = Nil

InitWith(n, c) == InitPool(Pool(n), c)

\* Pools of 1..MaxBackends backends, every request slot in use.
Init == \E n \in 1..MaxBackends : InitWith(n, Cardinality(Requests))

\* A pool of BigPool backends, one request at a time.
InitSolo == InitWith(BigPool, 1)

\* --------------------------------------------------------------- actions
\* net/http accepts a request and runs lb on it with a fresh context.
Arrive(r) ==
    /\ pc[r] = "idle"
    /\ r <= conns
    /\ pc' = [pc EXCEPT ![r] = "lb"]
    /\ ctx' = [ctx EXCEPT ![r] = EmptyContext]
    /\ UNCHANGED <<backends, current, conns, nextIdx, i, seen, peer, hist>>

\* lb, up to the call of GetNextPeer.
LbEnter(r) ==
    /\ pc[r] = "lb"
    /\ LET attempts == GetAttemptsFromContext(ctx[r])
       IN  IF CeilingReached(attempts)
           THEN /\ pc' = [pc EXCEPT ![r] = "failed"]
                /\ UNCHANGED entryDead
           ELSE /\ pc' = [pc EXCEPT ![r] = "NextIndex"]
                /\ entryDead' = [entryDead EXCEPT ![r] = AllDead(backends)]
    /\ UNCHANGED <<backends, current, conns, ctx, nextIdx, i, seen, peer>>
    /\ UNCHANGED <<calls, ticket, stable, visited, before, fails, lastPick>>

\* NextIndex, called first thing by GetNextPeer.
NextIndex(r) ==
    /\ pc[r] = "NextIndex"
    /\ current' = AddUint64(current, 1)
    /\ seen' = [seen EXCEPT ![r] = current']
    /\ nextIdx' = [nextIdx EXCEPT ![r] = IndexOf(seen'[r], NumBackends)]
    /\ i' = [i EXCEPT ![r] = nextIdx'[r]]
    /\ pc' = [pc EXCEPT ![r] = "scan"]
    /\ calls' = CountCall(calls)
    /\ ticket' = [ticket EXCEPT ![r] = calls']
    /\ stable' = [stable EXCEPT ![r] = TRUE]
    /\ before' = [before EXCEPT ![r] = current]
    /\ UNCHANGED <<backends, conns, ctx, peer, visited, entryDead, fails, lastPick>>

\* One iteration of GetNextPeer's loop (one IsAlive read), or its exit.
Scan(r) ==
    /\ pc[r] = "scan"
    /\ IF i[r] < ScanLimit(NumBackends, nextIdx[r])
       THEN LET idx == i[r] % NumBackends
            IN  IF IsAlive(backends, idx)
                THEN /\ peer' = [peer EXCEPT ![r] = idx]
                     /\ pc' = [pc EXCEPT ![r] =
                                 IF i[r] # nextIdx[r] THEN "store" ELSE "ret"]
                     /\ i' = i
                ELSE /\ i' = [i EXCEPT ![r] = i[r] + 1]
                     /\ UNCHANGED <<pc, peer>>
       ELSE /\ peer' = [peer EXCEPT ![r] = Nil]
            /\ pc' = [pc EXCEPT ![r] = "ret"]
            /\ i' = i
    /\ UNCHANGED <<backends, current, conns, ctx, nextIdx, seen, hist>>

\* GetNextPeer: if i != nextIdx { atomic.StoreUint64(&s.current, uint64(idx)) }
Store(r) ==
    /\ pc[r] = "store"
    /\ current' = StoreUint64(current, peer[r])
    /\ pc' = [pc EXCEPT ![r] = "ret"]
    /\ UNCHANGED <<backends, conns, ctx, nextIdx, i, seen, peer, hist>>

\* GetNextPeer returns to lb, which dispatches to the peer or answers 503.
Return(r) ==
    /\ pc[r] = "ret"
    /\ pc' = [pc EXCEPT ![r] = IF Dispatches(peer[r]) THEN "serve" ELSE "failed"]
    /\ nextIdx' = [nextIdx EXCEPT ![r] = 0]
    /\ i' = [i EXCEPT ![r] = 0]
    /\ seen' = [seen EXCEPT ![r] = 0]
    /\ ticket' = [ticket EXCEPT ![r] = Untracked]
    /\ stable' = [stable EXCEPT ![r] = FALSE]
    /\ visited' = [visited EXCEPT ![r] =
                     IF peer[r] # Nil THEN @ \cup {peer[r]} ELSE @]
    /\ before' = [before EXCEPT ![r] = 0]
    /\ fails' = [fails EXCEPT ![r] = 0]
    /\ lastPick' = IF conns = 1 THEN peer[r] ELSE Nil
    /\ UNCHANGED <<backends, current, conns, ctx, peer, calls, entryDead>>

\* The forwarding engine relays the request and the backend answers.
Succeed(r) ==
    /\ pc[r] = "serve"
    /\ pc' = [pc EXCEPT ![r] = "done"]
    /\ UNCHANGED <<backends, current, conns, ctx, nextIdx, i, seen, peer, hist>>

\* The relay fails: the engine calls the proxy's ErrorHandler.
Fail(r) ==
    /\ pc[r] = "serve"
    /\ pc' = [pc EXCEPT ![r] = "errorHandler"]
    /\ fails' = [fails EXCEPT ![r] = @ + 1]
    /\ UNCHANGED <<backends, current, conns, ctx, nextIdx, i, seen, peer>>
    /\ UNCHANGED <<calls, ticket, stable, visited, entryDead, before, lastPick>>

\* ErrorHandler, retries < 3: same proxy again with Retry = retries + 1.
ErrorHandlerRetry(r) ==
    /\ pc[r] = "errorHandler"
    /\ LET retries == GetAttemptsFromContext(ctx[r])
       IN  /\ MayRetry(retries)
           /\ ctx' = [ctx EXCEPT ![r] = WithValue(ctx[r], Retry, retries + 1)]
    /\ pc' = [pc EXCEPT ![r] = "serve"]
    /\ UNCHANGED <<backends, current, conns, nextIdx, i, seen, peer, hist>>

\* What a write of the Alive flags does to the history variables.
FlagsWritten ==
    IF backends' = backends
    THEN UNCHANGED <<calls, ticket, stable, lastPick>>
    ELSE /\ calls' = Untracked
         /\ ticket' = [r \in Requests |-> Untracked]
         /\ stable' = [r \in Requests |-> FALSE]
         /\ lastPick' = Nil

\* ErrorHandler, otherwise: mark the proxy's backend dead, re-enter lb.
ErrorHandlerFailover(r) ==
    /\ pc[r] = "errorHandler"
    /\ ~MayRetry(GetAttemptsFromContext(ctx[r]))
    /\ backends' = MarkBackendStatus(backends, backends[peer[r] + 1].URL, FALSE)
    /\ LET attempts == GetAttemptsFromContext(ctx[r])
       IN  ctx' = [ctx EXCEPT ![r] = WithValue(ctx[r], Attempts, attempts + 1)]
    /\ pc' = [pc EXCEPT ![r] = "lb"]
    /\ peer' = [peer EXCEPT ![r] = Nil]
    /\ FlagsWritten
    /\ fails' = [fails EXCEPT ![r] = 0]
    /\ UNCHANGED <<current, conns, nextIdx, i, seen, visited, entryDead, before>>

\* The response (proxied, or 503) is written; the goroutine ends.
Respond(r) ==
    /\ pc[r] \in {"done", "failed"}
    /\ pc' = [pc EXCEPT ![r] = "idle"]
    /\ ctx' = [ctx EXCEPT ![r] = EmptyContext]
    /\ peer' = [peer EXCEPT ![r] = Nil]
    /\ visited' = [visited EXCEPT ![r] = {}]
    /\ entryDead' = [entryDead EXCEPT ![r] = FALSE]
    /\ fails' = [fails EXCEPT ![r] = 0]
    /\ UNCHANGED <<backends, current, conns, nextIdx, i, seen>>
    /\ UNCHANGED <<calls, ticket, stable, before, lastPick>>

\* Every step of a request between its arrival and its response.
Progress(r) ==
    \/ LbEnter(r)
    \/ NextIndex(r)
    \/ Scan(r)
    \/ Store(r)
    \/ Return(r)
    \/ Succeed(r)
    \/ Fail(r)
    \/ ErrorHandlerRetry(r)
    \/ ErrorHandlerFailover(r)
    \/ Respond(r)

Step(r) == Arrive(r) \/ Progress(r)

Next == \E r \in Requests : Step(r)

\* The external health driver feeds a probe result into SetAlive.
HealthCheck(idx, alive) ==
    /\ idx \in 0..(NumBackends - 1)
    /\ backends' = SetAlive(backends, idx, alive)
    /\ FlagsWritten
    /\ UNCHANGED <<current, conns, pc, ctx, nextIdx, i, seen, peer>>
    /\ UNCHANGED <<visited, entryDead, before, fails>>

NextHealth ==
    \/ \E r \in Requests : Step(r)
    \/ \E idx \in 0..(HealthPool - 1), alive \in BOOLEAN : HealthCheck(idx, alive)

InitHealth == \E n \in 1..HealthPool : InitWith(n, 1)

\* Addresses a configuration can name: two, so that a pool can repeat one and
\* a call can name one no backend has.
Addrs == {1, 2}

\* A caller of the pool's status method, with any address and either value.
MarkCall(u, alive) ==
    /\ backends' = MarkBackendStatus(backends, u, alive)
    /\ FlagsWritten
    /\ UNCHANGED <<current, conns, pc, ctx, nextIdx, i, seen, peer>>
    /\ UNCHANGED <<visited, entryDead, before, fails>>

NextMark ==
    \/ \E r \in Requests : Step(r)
    \/ \E u \in Addrs, alive \in BOOLEAN : MarkCall(u, alive)

\* Pools of 1..MaxBackends backends with any addresses, duplicates included,
\* one request at a time.
InitMark ==
    \E n \in 1..MaxBackends :
        \E urls \in [1..n -> Addrs] : InitPool(PoolOf(urls), 1)

\* ---------------------------------------------------------------- claims
\* The spec's two counters, as the request's context holds them.
RetryCount(c) == IF c[Retry] # Unset THEN c[Retry] ELSE 0
AttemptCount(c) == IF c[Attempts] # Unset THEN c[Attempts] ELSE 0

AliveSet(bs) == {j \in 0..(Len(bs) - 1) : bs[j + 1].Alive}

\* The first alive backend in cyclic pool order from `start`, Nil if none.
FirstAliveFrom(bs, start) ==
    LET n == Len(bs)
        offs == {d \in 0..(n - 1) : bs[((start + d) % n) + 1].Alive}
    IN  IF offs = {} THEN Nil
        ELSE (start + (CHOOSE d \in offs : \A e \in offs : d <= e)) % n

\* A request whose GetNextPeer call is about to return, with the rank of its
\* NextIndex call known (no Alive flag has changed since startup).
Ranked(r) == pc[r] = "ret" /\ ticket[r] # Untracked /\ ticket[r] < CallCap

\* C1 as stated: all backends alive, no status change, cursor from 0: the k-th
\* GetNextPeer call, by the order of the increments, returns the backend at
\* index k mod N, for every k.
C1_RoundRobinEveryCall ==
    \A r \in Requests : Ranked(r) => peer[r] = ticket[r] % NumBackends

\* C1 amended: the k-th call returns the backend at index (k mod 2^w) mod N, w
\* the cursor's width: k mod N until the cursor wraps.
C1_RoundRobin ==
    \A r \in Requests :
        Ranked(r) =>
            /\ peer[r] = (ticket[r] % Modulus) % NumBackends
            /\ ticket[r] < Modulus => peer[r] = ticket[r] % NumBackends

\* Three backends, the 4th and the 5th call in flight together: B and C.
C1_Witness ==
    /\ NumBackends = 3
    /\ Ranked(1) /\ ticket[1] = 5 /\ peer[1] = 2
    /\ Ranked(2) /\ ticket[2] = 4 /\ peer[2] = 1

\* C2 as stated: whatever the interleaving, a backend that GetNextPeer returns
\* to lb is alive at the moment it is returned.
C2_ReturnedIsAlive ==
    [][\A r \in Requests :
          (pc[r] = "ret" /\ pc'[r] = "serve") => IsAlive(backends, peer[r])]_vars

\* C2 amended: a backend that GetNextPeer returns was alive when the call's
\* IsAlive read chose it, and the call returns the backend it chose; another
\* request may have marked it dead before the return.
C2_ChosenWasReadAlive ==
    [][\A r \in Requests :
          /\ (peer'[r] # peer[r] /\ peer'[r] # Nil) =>
                 (pc[r] = "scan" /\ backends[peer'[r] + 1].Alive)
          /\ (pc[r] = "ret" /\ pc'[r] = "serve") => peer'[r] = peer[r]]_vars

\* A call about to return a backend that another request has marked dead.
C2_Witness ==
    \E r \in Requests :
        pc[r] = "ret" /\ peer[r] # Nil /\ ~backends[peer[r] + 1].Alive

\* C3: with no Alive flag changed during the call, GetNextPeer returns the
\* first alive backend in cyclic order from the index NextIndex gave it, and
\* nil exactly when no backend is alive.
C3_FirstAlive ==
    \A r \in Requests :
        (pc[r] = "ret" /\ stable[r]) =>
            /\ peer[r] = FirstAliveFrom(backends, nextIdx[r])
            /\ peer[r] = Nil <=> AliveSet(backends) = {}
            /\ \A b \in AliveSet(backends) : AliveSet(backends) = {b} => peer[r] = b

\* Three backends, only the one just before the start index alive: the scan
\* wraps around the whole pool and returns it.
C3_Witness ==
    \E r \in Requests :
        /\ pc[r] = "ret" /\ stable[r]
        /\ NumBackends = 3
        /\ AliveSet(backends) = {(nextIdx[r] + 2) % 3}
        /\ peer[r] = (nextIdx[r] + 2) % 3

\* C4: a request that enters lb with an attempt count above the ceiling is
\* answered 503 at once: no GetNextPeer call, cursor and flags unchanged.
C4_CeilingRejects ==
    [][\A r \in Requests :
          (pc[r] = "lb" /\ AttemptCount(ctx[r]) > MaxAttempts /\ pc'[r] # "lb") =>
              (pc'[r] = "failed" /\ current' = current /\ backends' = backends)]_vars

\* C5: a request whose every forwarding fails is dispatched to at most 4
\* distinct backends.
C5_AtMostFourBackends ==
    \A r \in Requests : Cardinality(visited[r]) <= MaxAttempts + 1

\* C6: every request that enters lb ends Completed or Failed.
C6_Terminates ==
    \A r \in Requests : (pc[r] = "lb") ~> (pc[r] \in {"done", "failed"})

\* C7: the first dispatch to another backend after a failover carries retry
\* count 0.
C7_RetryResetOnFailover ==
    [][\A r \in Requests :
          (pc[r] = "ret" /\ pc'[r] = "serve"
              /\ visited[r] # {} /\ peer[r] \notin visited[r]) =>
                  RetryCount(ctx'[r]) = 0]_vars

\* C8: a failover raises the attempt count by exactly 1.
C8_AttemptPlusOne ==
    [][\A r \in Requests :
          (pc[r] = "errorHandler" /\ pc'[r] = "lb") =>
              AttemptCount(ctx'[r]) = AttemptCount(ctx[r]) + 1]_vars

\* C9: a forwarding failure with retry count < 3 re-dispatches to the same
\* backend with the retry count one higher; attempt count, flags and cursor
\* stay as they are.
C9_RetryFrame ==
    [][\A r \in Requests :
          (pc[r] = "errorHandler" /\ RetryCount(ctx[r]) < MaxRetries
              /\ pc'[r] # pc[r]) =>
                  /\ pc'[r] = "serve"
                  /\ peer'[r] = peer[r]
                  /\ RetryCount(ctx'[r]) = RetryCount(ctx[r]) + 1
                  /\ ctx'[r][Attempts] = ctx[r][Attempts]
                  /\ backends' = backends
                  /\ current' = current]_vars

\* A request dispatched again after its second retry.
C9_Witness ==
    \E r \in Requests : pc[r] = "serve" /\ RetryCount(ctx[r]) = 2

\* C10: a request that enters lb with every backend dead is answered 503
\* without any dispatch, retry or failover, and no flag changes.
C10_AllDead503 ==
    \A r \in Requests :
        entryDead[r] =>
            /\ pc[r] \in {"NextIndex", "scan", "ret", "failed"}
            /\ peer[r] = Nil
            /\ AllDead(backends)

\* A fresh request answered 503 after a scan of three dead backends.
C10_Witness ==
    \E r \in Requests :
        /\ entryDead[r] /\ pc[r] = "failed"
        /\ ctx[r] = EmptyContext /\ visited[r] = {}
        /\ NumBackends = 3

\* A request inside GetNextPeer, after its NextIndex call.
InCall(r) == pc[r] \in {"scan", "store", "ret"}

\* C11: NextIndex calls with nothing else touching the cursor (no Alive flag
\* has changed, so no call has stored): the call of rank k gets the value
\* k mod 2^w, the cursor stands at (number of calls) mod 2^w, and two calls in
\* flight together hold different values.
C11_DistinctIncrements ==
    /\ (calls # Untracked /\ calls < CallCap) => current = calls % Modulus
    /\ \A r \in Requests :
          (InCall(r) /\ ticket[r] # Untracked /\ ticket[r] < CallCap) =>
              /\ seen[r] = ticket[r] % Modulus
              /\ seen[r] = (before[r] + 1) % Modulus
    /\ \A r, q \in Requests :
          (r # q /\ InCall(r) /\ InCall(q)
              /\ ticket[r] # Untracked /\ ticket[q] < CallCap
              /\ ticket[r] < ticket[q] /\ ticket[q] < ticket[r] + Modulus) =>
                  (seen[r] # seen[q] /\ before[r] # before[q])

\* Two calls in flight across the wrap: one got 2^w - 1, the other 0.
C11_Witness ==
    /\ InCall(1) /\ InCall(2)
    /\ ticket[1] = Modulus - 1 /\ seen[1] = Modulus - 1
    /\ ticket[2] = Modulus /\ seen[2] = 0
    /\ current = 0

\* C13: two GetNextPeer calls in flight together never hold the same
\* post-increment cursor value, fast-forward stores included.
C13_DistinctAcrossStores ==
    \A r, q \in Requests :
        (r # q /\ InCall(r) /\ InCall(q)) => seen[r] # seen[q]

\* What MarkBackendStatus(u, a) may do to the pool bs, giving bs2: the first
\* backend with URL u gets Alive = a, everything else stays.
MarkFrame(bs, bs2, u, a) ==
    LET hits == {j \in 1..Len(bs) : bs[j].URL = u}
    IN  /\ Len(bs2) = Len(bs)
        /\ \A j \in 1..Len(bs) :
              /\ bs2[j].URL = bs[j].URL
              /\ bs2[j].Alive =
                    IF j \in hits /\ \A k \in hits : j <= k THEN a ELSE bs[j].Alive
        /\ hits = {} => bs2 = bs

\* C12: MarkBackendStatus(address, alive) writes the flag of the first backend
\* with that address and nothing else: other flags, later backends with the
\* same address and the cursor stay; with no match nothing changes.
C12_MarkFrame ==
    [][/\ \A u \in Addrs, a \in BOOLEAN :
             MarkCall(u, a) => (MarkFrame(backends, backends', u, a) /\ current' = current)
       /\ \A r \in Requests :
             (pc[r] = "errorHandler" /\ pc'[r] = "lb") =>
                 /\ MarkFrame(backends, backends', backends[peer[r] + 1].URL, FALSE)
                 /\ current' = current]_vars

\* [X, X, _]: a request that failed over from the second X has set the first X
\* dead; the second keeps its flag.
C12_Witness ==
    \E r \in Requests :
        /\ NumBackends = 3
        /\ backends[1].URL = backends[2].URL
        /\ ~backends[1].Alive /\ backends[2].Alive /\ backends[3].Alive
        /\ pc[r] = "lb" /\ visited[r] = {1}


\* C14: two GetNextPeer calls in flight together that took consecutive
\* increments of the cursor (no wrap between them), no Alive flag changed
\* during either, at least two backends alive: they return different backends.
C14_NoCollision ==
    \A r, q \in Requests :
        (r # q /\ pc[r] = "ret" /\ pc[q] = "ret" /\ stable[r] /\ stable[q]
            /\ before[q] = seen[r] /\ seen[q] = seen[r] + 1
            /\ Cardinality(AliveSet(backends)) >= 2) =>
                peer[r] # peer[q]

\* C15: the failure policy marks a backend dead only after the request has
\* failed on it 4 times in a row (the dispatch and 3 retries).
C15_DemoteAfterFourFailures ==
    [][\A r \in Requests :
          (pc[r] = "errorHandler" /\ pc'[r] = "lb") =>
              fails[r] = MaxRetries + 1]_vars

\* C16: with unique addresses and nothing setting a flag back to alive, the
\* backend GetNextPeer returns to a request is never one the request was
\* dispatched to (and failed over from) before.
C16_NeverBackToDemoted ==
    \A r \in Requests :
        (pc[r] = "ret" /\ peer[r] # Nil) => peer[r] \notin visited[r]

\* After two failovers the router hands the request a third backend.
C16_Witness ==
    \E r \in Requests :
        /\ pc[r] = "ret" /\ peer[r] # Nil
        /\ Cardinality(visited[r]) = 2
        /\ \A b \in visited[r] : ~backends[b + 1].Alive

\* C17: a GetNextPeer call running alone, cursor c before it. No step of the
\* call changes a liveness flag; when the call is about to return, it has found
\* the first alive backend from index (c+1) mod N, and the cursor is c+1
\* (in the cursor's width) if that backend is the first candidate or if there
\* is none, and the found backend's index otherwise.
C17_CursorAfterCall ==
    [][\A r \in Requests :
          /\ pc[r] \in {"NextIndex", "scan", "store"} =>
                (backends' = backends /\ conns' = conns)
          /\ (pc[r] \in {"scan", "store"} /\ pc'[r] = "ret") =>
                LET c == before'[r]
                    cand == ((c + 1) % Modulus) % NumBackends
                    found == FirstAliveFrom(backends, cand)
                IN  /\ peer'[r] = found
                    /\ current' = IF found = Nil \/ found = cand
                                  THEN (c + 1) % Modulus
                                  ELSE found]_vars

\* A call that skipped a dead first candidate and moved the cursor to the
\* backend it found, which is neither c+1 nor that index plus one.
C17_Witness ==
    \E r \in Requests :
        /\ pc[r] = "ret" /\ peer[r] # Nil /\ peer[r] # nextIdx[r]
        /\ current = peer[r]
        /\ current # (before[r] + 1) % Modulus

\* C18: at every cursor value, the wrap from 2^w - 1 to 0 included, the index
\* NextIndex returns is in 0..N-1, every position GetNextPeer's loop reads is
\* in 0..N-1, and the backend it returns, if any, is in 0..N-1.
C18_IndexInRange ==
    /\ current \in 0..(Modulus - 1)
    /\ \A r \in Requests :
          /\ InCall(r) =>
                /\ nextIdx[r] \in 0..(NumBackends - 1)
                /\ i[r] \in nextIdx[r]..ScanLimit(NumBackends, nextIdx[r])
                /\ (i[r] % NumBackends) \in 0..(NumBackends - 1)
          /\ peer[r] \in {Nil} \cup 0..(NumBackends - 1)

\* The call whose increment wrapped the cursor, on a pool whose size does not
\* divide the cursor's range.
C18_Witness ==
    \E r \in Requests :
        /\ InCall(r) /\ before[r] = Modulus - 1 /\ seen[r] = 0
        /\ Modulus % NumBackends # 0
        /\ nextIdx[r] = 0

\* A GetNextPeer call about to return a backend, made by the only request in
\* the system, the liveness flags unchanged since the previous call returned
\* its backend (lastPick), and some backend dead.
Sequential(r) ==
    /\ pc[r] = "ret" /\ peer[r] # Nil /\ lastPick # Nil
    /\ \E j \in 1..NumBackends : ~backends[j].Alive

\* C19 as stated: from any cursor value, sequential calls over a fixed liveness
\* set with dead backends return the alive backends in cyclic pool order: each
\* call returns the first alive backend after the one the previous call returned.
C19_CyclesAlive ==
    \A r \in Requests :
        Sequential(r) =>
            peer[r] = FirstAliveFrom(backends, (lastPick + 1) % NumBackends)

\* C19, amended: the same, for a call whose increment does not wrap the cursor.
C19_CyclesAliveNoWrap ==
    \A r \in Requests :
        (Sequential(r) /\ before[r] # Modulus - 1) =>
            peer[r] = FirstAliveFrom(backends, (lastPick + 1) % NumBackends)

\* A call that skipped a dead backend to reach the successor of the last pick.
C19_Witness ==
    \E r \in Requests :
        /\ Sequential(r) /\ before[r] # Modulus - 1
        /\ peer[r] # nextIdx[r]
        /\ peer[r] # lastPick

\* C20: in the program as written, every step leaves the pool's size and
\* addresses alone and never turns a flag from dead to alive; a flag changes
\* only in the failure policy's failover; the backend a scan selects is alive
\* when the scan reads its flag; once every backend is dead this stays so, and
\* a request that entered lb then is never dispatched.
C20_AliveSetNeverGrows ==
    [][/\ Len(backends') = Len(backends)
       /\ \A j \in 1..Len(backends) :
             /\ backends'[j].URL = backends[j].URL
             /\ backends'[j].Alive => backends[j].Alive
       /\ (backends' # backends) =>
             \E r \in Requests : pc[r] = "errorHandler" /\ pc'[r] = "lb"
       /\ \A r \in Requests :
             /\ (pc[r] = "scan" /\ pc'[r] # "scan" /\ peer'[r] # Nil) =>
                   backends[peer'[r] + 1].Alive
             /\ entryDead[r] =>
                   pc'[r] \in {"NextIndex", "scan", "ret", "failed", "idle"}
       /\ AllDead(backends) => AllDead(backends')]_vars

\* Three backends, all demoted; a request that demoted one of them re-entered
\* lb with none left and was answered 503.
C20_Witness ==
    /\ NumBackends = 3 /\ AllDead(backends)
    /\ \E r \in Requests :
          entryDead[r] /\ pc[r] = "failed" /\ visited[r] # {}

\* The program as written: nothing calls SetAlive(true).
Spec == Init /\ [][Next]_vars

\* One request at a time on a pool of BigPool backends.
SpecSolo == InitSolo /\ [][Next]_vars

\* Any addresses, and status calls from outside the request path.
SpecMark == InitMark /\ [][NextMark]_vars

\* With the health driver.  Every request goroutine that can take a step
\* eventually takes one: the scheduler runs it, and the forwarding engine
\* ends every relay (with a response or with the error callback).
SpecHealth ==
    InitHealth /\ [][NextHealth]_vars /\ \A r \in Requests : WF_vars(Progress(r))

====
